---- MODULE Spec2Model ----
(***************************************************************************)
(* Accuracy/difficulty roll data of the Lancer system                      *)
(* (src/module/helpers/acc_diff/index.ts): the plugin registry, the three  *)
(* entity codecs, decode + hydration, the factory and the derived totals.  *)
(***************************************************************************)
EXTENDS Integers, Sequences, FiniteSets, TLC

VARIABLES
  wSchema,          \* AccDiffWeapon.pluginSchema : slug -> codec
  bSchema,          \* AccDiffBase.pluginSchema
  tSchema,          \* AccDiffTarget.pluginSchema
  plugins,          \* AccDiffData.plugins
  targetedPlugins,  \* AccDiffData.targetedPlugins
  data,             \* the live AccDiffData instance, or NoData
  pc,               \* position inside the AccDiffData constructor
  hi,               \* index of the next target to hydrate
  lockon,           \* tokens whose actor carries an active "lockon" effect
  obj,              \* the plain object last built by fromParams / returned by toObject
  err,              \* outcome of the last operation
  result,           \* value returned by the last total getter
  lastOp,           \* the operation that ran last
  args              \* the arguments of that operation

vars == <<wSchema, bSchema, tSchema, plugins, targetedPlugins, data, pc, hi,
          lockon, obj, err, result, lastOp, args>>

registry == <<wSchema, bSchema, tSchema, plugins, targetedPlugins>>

----------------------------------------------------------------------------
\* Bounds of the model

MaxPlugins == 2     \* registerPlugin calls after the import-time one
MaxLate == 1        \* the same, where serialized rolls of every shape are decoded
MaxTags == 3        \* length of the tag list handed to fromParams
MaxTargets == 2     \* number of targets of one roll
MaxNum == 1         \* accuracy / difficulty values range over 0..MaxNum

----------------------------------------------------------------------------
\* Cover (enum) and coverSchema

CoverNone == 0
CoverSoft == 1
CoverHard == 2

coverSchema == {CoverNone, CoverSoft, CoverHard}

----------------------------------------------------------------------------
\* Plain values, plugin data and plugin codecs

Slugs == {"invisibility", "scan"}
UnknownSlug == "zz"
Codecs == {1, 2}

\* A JS value held in a plugins map: cls = 0 is a plain (undecoded) number,
\* cls = c > 0 an instance of the data class of plugin codec c.
Plain(n) == [cls |-> 0, data |-> n]
Undefined == Plain(-1)

EmptyMap == [k \in {} |-> Undefined]

\* m[k] of a JS object: undefined when the key is absent
Get(m, k) == IF k \in DOMAIN m THEN m[k] ELSE Undefined

\* m[k] = v
SetKey(m, k, v) == [x \in (DOMAIN m) \cup {k} |-> IF x = k THEN v ELSE m[x]]

\* The plain numbers plugin codec c accepts: codec c writes its data d as 10c + d
PluginDomain(c) == {10 * c, 10 * c + 1}

\* plugin.codec.decode: enclass(inner, Cls) validates with the inner codec
\* and wraps the value in a new Cls
PluginDecode(c, v) ==
  IF v.cls = 0 /\ v.data \in PluginDomain(c)
  THEN [ok |-> TRUE, val |-> [cls |-> c, data |-> v.data - 10 * c]]
  ELSE [ok |-> FALSE, val |-> v]

\* plugin.codec.encode: enclass encodes a.raw with the inner codec; reading
\* .raw of undefined throws, .raw of a plain number is undefined
PluginEncode(c, v) ==
  IF v = Undefined THEN [ok |-> FALSE, val |-> v]
  ELSE IF v.cls = 0 THEN [ok |-> TRUE, val |-> Undefined]
  ELSE [ok |-> TRUE, val |-> Plain(10 * c + v.data)]

\* The data a plugin's perRoll / perUnknownTarget / perTarget hook produces
PluginDefault(p) == [cls |-> p.codec, data |-> 0]

Hooks == [perRoll : BOOLEAN, perUnknownTarget : BOOLEAN, perTarget : BOOLEAN]

Plugin(s, c, h) ==
  [slug |-> s, codec |-> c, perRoll |-> h.perRoll,
   perUnknownTarget |-> h.perUnknownTarget, perTarget |-> h.perTarget]

PluginSet == {Plugin(s, c, h) : s \in Slugs, c \in Codecs, h \in Hooks}

----------------------------------------------------------------------------
\* io-ts t.type(pluginSchema)

\* validate: every key of the schema must decode; keys outside the schema
\* are neither rejected nor stripped
TypeValid(schema, m) ==
  \A k \in DOMAIN schema : PluginDecode(schema[k], Get(m, k)).ok

TypeDecode(schema, m) ==
  [k \in (DOMAIN m) \cup (DOMAIN schema) |->
     IF k \in DOMAIN schema THEN PluginDecode(schema[k], Get(m, k)).val
     ELSE m[k]]

\* encode: every key of the schema is encoded with its codec, the other
\* keys are copied
TypeEncodable(schema, m) ==
  \A k \in DOMAIN schema : PluginEncode(schema[k], Get(m, k)).ok

TypeEncode(schema, m) ==
  [k \in (DOMAIN m) \cup (DOMAIN schema) |->
     IF k \in DOMAIN schema THEN PluginEncode(schema[k], Get(m, k)).val
     ELSE m[k]]

----------------------------------------------------------------------------
\* The scene

SceneTokens == {"t1", "t2"}
StaleToken == "t9"
TokenIds == SceneTokens \cup {StaleToken}

NoData == [id |-> 0]
NoObj == [title |-> "none"]
NoArgs == [op |-> "none"]

----------------------------------------------------------------------------
\* AccDiffWeapon

WeaponValid(o) == TypeValid(wSchema, o.plugins)

\* new AccDiffWeapon(obj)
NewWeapon(o) ==
  [accurate |-> o.accurate, inaccurate |-> o.inaccurate, seeking |-> o.seeking,
   plugins |-> TypeDecode(wSchema, o.plugins), hydrated |-> 0]

WeaponRaw(w) ==
  [accurate |-> w.accurate, inaccurate |-> w.inaccurate, seeking |-> w.seeking,
   plugins |-> w.plugins]

\* plugins[key].hydrate(...) for every key: a plain value has no hydrate method
PluginsHydratable(m) == \A k \in DOMAIN m : m[k].cls # 0

WeaponHydrate(w, d) == [w EXCEPT !.hydrated = @ + 1]

WeaponEncodable(w) == TypeEncodable(wSchema, WeaponRaw(w).plugins)
WeaponEncode(w) ==
  [WeaponRaw(w) EXCEPT !.plugins = TypeEncode(wSchema, @)]

----------------------------------------------------------------------------
\* AccDiffBase

BaseValid(o) == o.cover \in coverSchema /\ TypeValid(bSchema, o.plugins)

\* new AccDiffBase(obj): #weapon is left undefined (0)
NewBase(o) ==
  [accuracy |-> o.accuracy, difficulty |-> o.difficulty, cover |-> o.cover,
   plugins |-> TypeDecode(bSchema, o.plugins),
   weapon |-> 0, weaponWrites |-> 0, hydrated |-> 0]

BaseRaw(b) ==
  [accuracy |-> b.accuracy, difficulty |-> b.difficulty, cover |-> b.cover,
   plugins |-> b.plugins]

\* this.#weapon = d.weapon   (d.weapon is the weapon owned by d)
BaseHydrate(b, d) ==
  [b EXCEPT !.weapon = d.id, !.weaponWrites = @ + 1, !.hydrated = @ + 1]

BaseEncodable(b) == TypeEncodable(bSchema, BaseRaw(b).plugins)
BaseEncode(b) ==
  [BaseRaw(b) EXCEPT !.plugins = TypeEncode(bSchema, @)]

----------------------------------------------------------------------------
\* AccDiffTarget

TargetValid(o) == o.cover \in coverSchema /\ TypeValid(tSchema, o.plugins)

\* canvas.scene.tokens.get(obj.target_id)
TokenFound(o) == o.target_id \in SceneTokens

NewTarget(o) ==
  [target |-> o.target_id, accuracy |-> o.accuracy, difficulty |-> o.difficulty,
   cover |-> o.cover, consumeLockOn |-> o.consumeLockOn,
   plugins |-> TypeDecode(tSchema, o.plugins),
   weapon |-> 0, base |-> 0, weaponWrites |-> 0, baseWrites |-> 0,
   hydrated |-> 0]

\* variant: consumeLockOn is written as the factory's constant
TargetRawLockOnConstant(t) ==
  [target_id |-> t.target, accuracy |-> t.accuracy, difficulty |-> t.difficulty,
   cover |-> t.cover, consumeLockOn |-> TRUE, plugins |-> t.plugins]

TargetRaw(t) ==
  [target_id |-> t.target, accuracy |-> t.accuracy, difficulty |-> t.difficulty,
   cover |-> t.cover, consumeLockOn |-> t.consumeLockOn, plugins |-> t.plugins]

\* variant: the base reference is not written
TargetHydrateNoBase(t, d) ==
  [t EXCEPT !.weapon = d.id, !.weaponWrites = @ + 1, !.hydrated = @ + 1]

TargetHydrate(t, d) ==
  [t EXCEPT !.weapon = d.id, !.base = d.id,
            !.weaponWrites = @ + 1, !.baseWrites = @ + 1, !.hydrated = @ + 1]

TargetEncodable(t) == TypeEncodable(tSchema, TargetRaw(t).plugins)
TargetEncode(t) ==
  [TargetRaw(t) EXCEPT !.plugins = TypeEncode(tSchema, @)]

----------------------------------------------------------------------------
\* AccDiffData codec

\* decode(obj, AccDiffData.codec): every property is validated; each valid
\* target is constructed at once, and its constructor throws on a token of
\* another scene
DecodeOutcome(o) ==
  LET valid(i) == TargetValid(o.targets[i])
      thrown == \E i \in DOMAIN o.targets : valid(i) /\ ~TokenFound(o.targets[i])
      allValid == /\ WeaponValid(o.weapon)
                  /\ BaseValid(o.base)
                  /\ \A i \in DOMAIN o.targets : valid(i)
  IN IF thrown THEN "TokenNotFound"
     ELSE IF ~allValid THEN "ValidationError"
     ELSE "ok"

\* the object a fresh instance is allocated at: distinct from the live one
NewId == IF data.id = 1 THEN 2 ELSE 1

\* the fields the constructor assigns before it hydrates
NewData(o, id) ==
  [id |-> id, title |-> o.title, weapon |-> NewWeapon(o.weapon),
   base |-> NewBase(o.base),
   targets |-> [i \in DOMAIN o.targets |-> NewTarget(o.targets[i])]]

DataRaw(d) ==
  [title |-> d.title, weapon |-> d.weapon, base |-> d.base, targets |-> d.targets]

DataEncodable(d) ==
  /\ WeaponEncodable(DataRaw(d).weapon)
  /\ BaseEncodable(DataRaw(d).base)
  /\ \A i \in DOMAIN DataRaw(d).targets : TargetEncodable(DataRaw(d).targets[i])

\* encode(this, AccDiffData.codec)
DataEncode(d) ==
  LET r == DataRaw(d)
  IN [title |-> r.title, weapon |-> WeaponEncode(r.weapon),
      base |-> BaseEncode(r.base),
      targets |-> [i \in DOMAIN r.targets |-> TargetEncode(r.targets[i])]]

----------------------------------------------------------------------------
\* AccDiffData.registerPlugin

\* variant: the perRoll test is dropped
RegisterWeaponAlways(ws, p) == SetKey(ws, p.slug, p.codec)

RegisterWeapon(ws, p) == IF p.perRoll THEN SetKey(ws, p.slug, p.codec) ELSE ws

RegisterBase(bs, p) == IF p.perUnknownTarget THEN SetKey(bs, p.slug, p.codec) ELSE bs

RegisterTarget(ts, p) == IF p.perTarget THEN SetKey(ts, p.slug, p.codec) ELSE ts

\* variant: the push sits outside the perTarget test
RegisterTargetedAlways(tp, p) == Append(tp, p)

RegisterTargeted(tp, p) == IF p.perTarget THEN Append(tp, p) ELSE tp

RegisterGlobal(ps, p) == Append(ps, p)

\* the plugin registered when the module is imported
Invisibility(h) == Plugin("invisibility", 1, h)

RegistryInit ==
  \E h \in Hooks :
    /\ wSchema = RegisterWeapon(EmptyMap, Invisibility(h))
    /\ bSchema = RegisterBase(EmptyMap, Invisibility(h))
    /\ tSchema = RegisterTarget(EmptyMap, Invisibility(h))
    /\ targetedPlugins = RegisterTargeted(<<>>, Invisibility(h))
    /\ plugins = RegisterGlobal(<<>>, Invisibility(h))

Init ==
  /\ RegistryInit
  /\ data = NoData
  /\ pc = "idle"
  /\ hi = 1
  /\ lockon = {}
  /\ obj = NoObj
  /\ err = "ok"
  /\ result = 0
  /\ lastOp = "import"
  /\ args = NoArgs

RegisterPlugin(p) ==
  /\ pc = "idle"
  /\ wSchema' = RegisterWeapon(wSchema, p)
  /\ bSchema' = RegisterBase(bSchema, p)
  /\ tSchema' = RegisterTarget(tSchema, p)
  /\ targetedPlugins' = RegisterTargeted(targetedPlugins, p)
  /\ plugins' = RegisterGlobal(plugins, p)
  /\ lastOp' = "registerPlugin"
  /\ args' = [op |-> "registerPlugin", plugin |-> p]
  /\ obj' = NoObj
  /\ err' = "ok"
  /\ result' = 0
  /\ UNCHANGED <<data, pc, hi, lockon>>

----------------------------------------------------------------------------
\* AccDiffData constructor, entered from decode

\* decode + the constructor's field assignments; hydration follows step by step
Construct(o) ==
  IF DecodeOutcome(o) = "ok"
  THEN /\ data' = NewData(o, NewId)
       /\ pc' = "weapon"
       /\ err' = "constructing"
  ELSE /\ data' = NoData
       /\ pc' = "idle"
       /\ err' = DecodeOutcome(o)

\* one roll at a time: a roll is built when the previous one has been dropped
NoSession == pc = "idle" /\ data = NoData /\ obj = NoObj

\* AccDiffData.fromObject(obj)
FromObject(o) ==
  /\ NoSession
  /\ Construct(o)
  /\ hi' = 1
  /\ obj' = o
  /\ lastOp' = "fromObject"
  /\ args' = NoArgs
  /\ result' = 0
  /\ UNCHANGED <<registry, lockon>>

\* a hydrate call that throws leaves the caller of decode without an instance
HydrateThrows ==
  /\ data' = NoData
  /\ pc' = "idle"
  /\ hi' = 1
  /\ err' = "TypeError"

\* this.weapon.hydrate(this)
HydrateWeaponStep ==
  /\ pc = "weapon"
  /\ IF PluginsHydratable(data.weapon.plugins)
     THEN /\ data' = [data EXCEPT !.weapon = WeaponHydrate(@, data)]
          /\ pc' = "base"
          /\ UNCHANGED <<hi, err>>
     ELSE HydrateThrows
  /\ UNCHANGED <<registry, lockon, obj, result, lastOp, args>>

\* this.base.hydrate(this)
HydrateBaseStep ==
  /\ pc = "base"
  /\ IF PluginsHydratable(data.base.plugins)
     THEN /\ data' = [data EXCEPT !.base = BaseHydrate(@, data)]
          /\ pc' = IF Len(data.targets) = 0 THEN "idle" ELSE "targets"
          /\ err' = IF Len(data.targets) = 0 THEN "ok" ELSE err
          /\ UNCHANGED hi
     ELSE HydrateThrows
  /\ UNCHANGED <<registry, lockon, obj, result, lastOp, args>>

\* for (let target of this.targets) { target.hydrate(this); }
HydrateTargetStep ==
  /\ pc = "targets"
  /\ IF PluginsHydratable(data.targets[hi].plugins)
     THEN /\ data' = [data EXCEPT !.targets[hi] = TargetHydrate(@, data)]
          /\ pc' = IF hi = Len(data.targets) THEN "idle" ELSE "targets"
          /\ err' = IF hi = Len(data.targets) THEN "ok" ELSE err
          /\ hi' = IF hi = Len(data.targets) THEN 1 ELSE hi + 1
     ELSE HydrateThrows
  /\ UNCHANGED <<registry, lockon, obj, result, lastOp, args>>

\* toObject()
ToObject ==
  /\ pc = "idle"
  /\ data # NoData
  /\ IF DataEncodable(data)
     THEN obj' = DataEncode(data) /\ err' = "ok"
     ELSE obj' = NoObj /\ err' = "TypeError"
  /\ lastOp' = "toObject"
  /\ args' = NoArgs
  /\ result' = 0
  /\ UNCHANGED <<registry, data, pc, hi, lockon>>

----------------------------------------------------------------------------
\* Derived totals

\* a back-reference that was never written is undefined
RefSet(ref) == ref # 0

\* variant: the cover is subtracted even for a seeking weapon
BaseTotalCoverAlways(b, w) ==
  b.accuracy - b.difficulty
    + (IF w.accurate THEN 1 ELSE 0)
    - (IF w.inaccurate THEN 1 ELSE 0)
    - b.cover

\* AccDiffBase.total
BaseTotal(b, w) ==
  b.accuracy - b.difficulty
    + (IF w.accurate THEN 1 ELSE 0)
    - (IF w.inaccurate THEN 1 ELSE 0)
    - (IF w.seeking THEN 0 ELSE b.cover)

\* AccDiffTarget.lockOnAvailable: the actor's effect with statusId "lockon"
LockOnAvailable(t) == t.target \in lockon

\* AccDiffTarget.usingLockOn
UsingLockOn(t) == t.consumeLockOn /\ LockOnAvailable(t)

\* variant: the whole of the base's total is added, not its untyped bonus
TargetTotalBaseTwice(t, w, b) ==
  LET base == t.accuracy - t.difficulty
                + (IF w.accurate THEN 1 ELSE 0)
                - (IF w.inaccurate THEN 1 ELSE 0)
                - (IF w.seeking THEN 0 ELSE t.cover)
      raw == base + BaseTotal(b, w)
      lock == IF UsingLockOn(t) THEN 1 ELSE 0
  IN raw + lock

\* AccDiffTarget.total
TargetTotal(t, w, b) ==
  LET base == t.accuracy - t.difficulty
                + (IF w.accurate THEN 1 ELSE 0)
                - (IF w.inaccurate THEN 1 ELSE 0)
                - (IF w.seeking THEN 0 ELSE t.cover)
      raw == base + b.accuracy - b.difficulty
      lock == IF UsingLockOn(t) THEN 1 ELSE 0
  IN raw + lock

\* a caller reads data.base.total
EvalBaseTotal ==
  /\ pc = "idle"
  /\ data # NoData
  /\ IF RefSet(data.base.weapon)
     THEN result' = BaseTotal(data.base, data.weapon) /\ err' = "ok"
     ELSE result' = 0 /\ err' = "TypeError"
  /\ lastOp' = "baseTotal"
  /\ args' = NoArgs
  /\ obj' = NoObj
  /\ UNCHANGED <<registry, data, pc, hi, lockon>>

\* variant: the getter deletes the effect it used
EvalTargetTotalConsuming(i) ==
  /\ pc = "idle"
  /\ data # NoData
  /\ i \in DOMAIN data.targets
  /\ result' = TargetTotal(data.targets[i], data.weapon, data.base)
  /\ err' = "ok"
  /\ lockon' = IF UsingLockOn(data.targets[i])
               THEN lockon \ {data.targets[i].target} ELSE lockon
  /\ lastOp' = "targetTotal"
  /\ args' = [op |-> "targetTotal", index |-> i]
  /\ obj' = NoObj
  /\ UNCHANGED <<registry, data, pc, hi>>

\* a caller reads data.targets[i].total
EvalTargetTotal(i) ==
  /\ pc = "idle"
  /\ data # NoData
  /\ i \in DOMAIN data.targets
  /\ IF RefSet(data.targets[i].weapon) /\ RefSet(data.targets[i].base)
     THEN /\ result' = TargetTotal(data.targets[i], data.weapon, data.base)
          /\ err' = "ok"
     ELSE result' = 0 /\ err' = "TypeError"
  /\ lastOp' = "targetTotal"
  /\ args' = [op |-> "targetTotal", index |-> i]
  /\ obj' = NoObj
  /\ UNCHANGED <<registry, data, pc, hi, lockon>>

\* the game applies a "lockon" effect to a token's actor
ApplyLockOn(tok) ==
  /\ pc = "idle"
  /\ tok \notin lockon
  /\ lockon' = lockon \cup {tok}
  /\ lastOp' = "applyLockOn"
  /\ args' = NoArgs
  /\ obj' = NoObj
  /\ err' = "ok"
  /\ result' = 0
  /\ UNCHANGED <<registry, data, pc, hi>>

\* a holder of the effect returned by usingLockOn calls its delete()
DeleteLockOn(tok) ==
  /\ pc = "idle"
  /\ tok \in lockon
  /\ lockon' = lockon \ {tok}
  /\ lastOp' = "deleteLockOn"
  /\ args' = NoArgs
  /\ obj' = NoObj
  /\ err' = "ok"
  /\ result' = 0
  /\ UNCHANGED <<registry, data, pc, hi>>

----------------------------------------------------------------------------
\* AccDiffData.fromParams

\* an optional argument
Absent == [present |-> FALSE, val |-> <<>>]
AbsentString == [present |-> FALSE, val |-> ""]
Some(v) == [present |-> TRUE, val |-> v]

LIDs == {"tg_accurate", "tg_inaccurate", "tg_seeking", "tg_heat_self"}

\* variant: the break after tg_inaccurate is missing
ApplyTagFallThrough(w, lid) ==
  CASE lid = "tg_accurate" -> [w EXCEPT !.accurate = TRUE]
    [] lid = "tg_inaccurate" -> [w EXCEPT !.inaccurate = TRUE, !.seeking = TRUE]
    [] lid = "tg_seeking" -> [w EXCEPT !.seeking = TRUE]
    [] OTHER -> w

\* switch (tag.Tag.LID)
ApplyTag(w, lid) ==
  CASE lid = "tg_accurate" -> [w EXCEPT !.accurate = TRUE]
    [] lid = "tg_inaccurate" -> [w EXCEPT !.inaccurate = TRUE]
    [] lid = "tg_seeking" -> [w EXCEPT !.seeking = TRUE]
    [] OTHER -> w

\* for (let tag of (tags || []))
RECURSIVE ApplyTags(_, _, _)
ApplyTags(tags, i, w) ==
  IF i > Len(tags) THEN w ELSE ApplyTags(tags, i + 1, ApplyTag(w, tags[i]))

\* ret.plugins[plugin.slug] = encode(plugin.perTarget!(t), plugin.codec)
RECURSIVE TargetPlugins(_, _, _)
TargetPlugins(tp, i, m) ==
  IF i > Len(tp) THEN m
  ELSE TargetPlugins(tp, i + 1,
         SetKey(m, tp[i].slug, PluginEncode(tp[i].codec, PluginDefault(tp[i])).val))

\* variant: an entry already written for the slug is kept
RECURSIVE RollPluginsKeepFirst(_, _, _)
RollPluginsKeepFirst(ps, i, m) ==
  IF i > Len(ps) THEN m
  ELSE RollPluginsKeepFirst(ps, i + 1,
         IF ps[i].perRoll /\ ps[i].slug \notin DOMAIN m
         THEN SetKey(m, ps[i].slug, PluginEncode(ps[i].codec, PluginDefault(ps[i])).val)
         ELSE m)

\* if (plugin.perRoll) obj.weapon.plugins[plugin.slug] = encode(...)
RECURSIVE RollPlugins(_, _, _)
RollPlugins(ps, i, m) ==
  IF i > Len(ps) THEN m
  ELSE RollPlugins(ps, i + 1,
         IF ps[i].perRoll
         THEN SetKey(m, ps[i].slug, PluginEncode(ps[i].codec, PluginDefault(ps[i])).val)
         ELSE m)

\* if (plugin.perUnknownTarget) obj.base.plugins[plugin.slug] = encode(...)
RECURSIVE UnknownTargetPlugins(_, _, _)
UnknownTargetPlugins(ps, i, m) ==
  IF i > Len(ps) THEN m
  ELSE UnknownTargetPlugins(ps, i + 1,
         IF ps[i].perUnknownTarget
         THEN SetKey(m, ps[i].slug, PluginEncode(ps[i].codec, PluginDefault(ps[i])).val)
         ELSE m)

\* title ? `${title} - Accuracy and Difficulty` : "Accuracy and Difficulty"
\* (a string is kept as the sequence of its pieces; "" is falsy)
MakeTitle(title) ==
  IF title.present /\ title.val # ""
  THEN <<title.val, " - Accuracy and Difficulty">>
  ELSE <<"Accuracy and Difficulty">>

\* the plain object fromParams hands to fromObject
FromParamsObj(a) ==
  LET tags == IF a.tags.present THEN a.tags.val ELSE <<>>
      targets == IF a.targets.present THEN a.targets.val ELSE <<>>
      weapon == ApplyTags(tags, 1,
                  [accurate |-> FALSE, inaccurate |-> FALSE, seeking |-> FALSE,
                   plugins |-> EmptyMap])
      base == [cover |-> CoverNone,
               accuracy |-> IF a.starting.present THEN a.starting.val[1] ELSE 0,
               difficulty |-> IF a.starting.present THEN a.starting.val[2] ELSE 0,
               plugins |-> EmptyMap]
  IN [title |-> MakeTitle(a.title),
      weapon |-> [weapon EXCEPT !.plugins = RollPlugins(plugins, 1, @)],
      base |-> [base EXCEPT !.plugins = UnknownTargetPlugins(plugins, 1, @)],
      targets |-> [i \in DOMAIN targets |->
                     [target_id |-> targets[i], accuracy |-> 0, difficulty |-> 0,
                      cover |-> CoverNone, consumeLockOn |-> TRUE,
                      plugins |-> TargetPlugins(targetedPlugins, 1, EmptyMap)]]]

FromParams(a) ==
  /\ NoSession
  /\ Construct(FromParamsObj(a))
  /\ hi' = 1
  /\ obj' = FromParamsObj(a)
  /\ lastOp' = "fromParams"
  /\ args' = a
  /\ result' = 0
  /\ UNCHANGED <<registry, lockon>>

----------------------------------------------------------------------------
\* The enclosing session drops the roll (and whatever it was handed)

Discard ==
  /\ pc = "idle"
  /\ ~NoSession
  /\ data' = NoData
  /\ obj' = NoObj
  /\ err' = "ok"
  /\ result' = 0
  /\ lastOp' = "discard"
  /\ args' = NoArgs
  /\ UNCHANGED <<registry, pc, hi, lockon>>

----------------------------------------------------------------------------
\* Inputs

SeqsUpTo(S, n) == UNION {[1..k -> S] : k \in 0..n}

Nums == 0..MaxNum

\* the serialized plugins map of an entity under its current schema
DefaultPlugins(schema) == [k \in DOMAIN schema |-> Plain(10 * schema[k])]

DefaultTitle == <<"Accuracy and Difficulty">>

PlainWeapon(a, i, s, m) ==
  [accurate |-> a, inaccurate |-> i, seeking |-> s, plugins |-> m]

PlainBase(a, d, c, m) ==
  [accuracy |-> a, difficulty |-> d, cover |-> c, plugins |-> m]

PlainTarget(id, a, d, c, l, m) ==
  [target_id |-> id, accuracy |-> a, difficulty |-> d, cover |-> c,
   consumeLockOn |-> l, plugins |-> m]

PlainData(t, w, b, ts) == [title |-> t, weapon |-> w, base |-> b, targets |-> ts]

\* serialized rolls with every numeric field varied and at most one target
NumericTargets ==
  {<<>>} \cup
  {<<PlainTarget("t1", a, d, c, l, DefaultPlugins(tSchema))>> :
     a \in Nums, d \in Nums, c \in coverSchema, l \in BOOLEAN}

NumericObjects ==
  {PlainData(DefaultTitle,
             PlainWeapon(f[1], f[2], f[3], DefaultPlugins(wSchema)),
             PlainBase(n[1], n[2], c, DefaultPlugins(bSchema)), ts) :
     f \in BOOLEAN \X BOOLEAN \X BOOLEAN, n \in Nums \X Nums,
     c \in coverSchema, ts \in NumericTargets}

\* serialized plugins maps: any keys, registered or not, any plain values
PlainVals == {Plain(11), Plain(20)}
Keys == Slugs \cup {UnknownSlug}
PlainMaps == UNION {[K -> PlainVals] : K \in SUBSET Keys}

\* serialized rolls whose plugins map is arbitrary in one entity
PluginObjects ==
  {PlainData(DefaultTitle,
             PlainWeapon(FALSE, TRUE, FALSE,
                         IF e = "weapon" THEN m ELSE DefaultPlugins(wSchema)),
             PlainBase(1, 0, c,
                       IF e = "base" THEN m ELSE DefaultPlugins(bSchema)),
             <<PlainTarget(id, 0, 1, CoverSoft, FALSE,
                           IF e = "target" THEN m ELSE DefaultPlugins(tSchema))>>) :
     e \in {"weapon", "base", "target"}, m \in PlainMaps,
     c \in {CoverHard}, id \in {"t1"}}

\* serialized rolls with up to MaxTargets targets, some carrying a stray key
HydrateTargets ==
  {PlainTarget(id, 0, 0, CoverNone, TRUE, m) :
     id \in SceneTokens,
     m \in {DefaultPlugins(tSchema),
            SetKey(DefaultPlugins(tSchema), UnknownSlug, Plain(10))}}

HydrateObjects ==
  {PlainData(DefaultTitle,
             PlainWeapon(FALSE, FALSE, FALSE, DefaultPlugins(wSchema)),
             PlainBase(0, 0, CoverNone, DefaultPlugins(bSchema)), ts) :
     ts \in SeqsUpTo(HydrateTargets, MaxTargets)}

\* fromParams arguments
TagLists == {Absent} \cup {Some(t) : t \in SeqsUpTo(LIDs, MaxTags)}
Titles == {AbsentString, Some(""), Some("Shot")}
TargetLists(n) == {Absent} \cup {Some(t) : t \in SeqsUpTo(TokenIds, n)}
Startings == {Absent} \cup {Some(<<a, d>>) : a \in Nums, d \in Nums}

Params(tg, ti, ts, st) == [tags |-> tg, title |-> ti, targets |-> ts, starting |-> st]

----------------------------------------------------------------------------
\* Specifications

HydrateSteps == HydrateWeaponStep \/ HydrateBaseStep \/ HydrateTargetStep

\* totals: numeric rolls, lock-on applied and deleted around the reads
NextTotals ==
  \/ NoSession /\ \E o \in NumericObjects : FromObject(o)
  \/ HydrateSteps
  \/ EvalBaseTotal
  \/ \E i \in 1..MaxTargets : EvalTargetTotal(i)
  \/ \E tok \in SceneTokens : ApplyLockOn(tok)
  \/ \E tok \in SceneTokens : DeleteLockOn(tok)
  \/ Discard

SpecTotals == Init /\ [][NextTotals]_vars

\* the factory's tag mapping
NextTags ==
  \/ NoSession /\ \E tg \in TagLists, ti \in Titles, st \in Startings :
        FromParams(Params(tg, ti, Some(<<"t1">>), st))
  \/ HydrateSteps
  \/ Discard

SpecTags == Init /\ [][NextTags]_vars

\* construction and hydration order
NextHydrate ==
  \/ NoSession /\ \E ts \in TargetLists(MaxTargets) :
        FromParams(Params(Absent, AbsentString, ts, Absent))
  \/ NoSession /\ \E o \in HydrateObjects : FromObject(o)
  \/ HydrateSteps
  \/ EvalBaseTotal
  \/ \E i \in 1..MaxTargets : EvalTargetTotal(i)
  \/ Discard

SpecHydrate == Init /\ [][NextHydrate]_vars

\* the plugin registry and the factory
NextRegistry ==
  \/ /\ pc = "idle"
     /\ Len(plugins) < 1 + MaxPlugins
     /\ \E p \in PluginSet : RegisterPlugin(p)
  \/ NoSession /\ FromParams(Params(Absent, AbsentString, Some(<<"t1">>), Absent))
  \/ HydrateSteps
  \/ Discard

SpecRegistry == Init /\ [][NextRegistry]_vars

\* the codecs: serialized rolls of every shape, decoded and encoded again
NextCodec ==
  \/ /\ pc = "idle"
     /\ Len(plugins) < 1 + MaxLate
     /\ \E p \in PluginSet : RegisterPlugin(p)
  \/ NoSession /\ \E ts \in TargetLists(1) :
        FromParams(Params(Absent, AbsentString, ts, Absent))
  \/ NoSession /\ \E o \in PluginObjects : FromObject(o)
  \/ HydrateSteps
  \/ ToObject
  \/ Discard

SpecCodec == Init /\ [][NextCodec]_vars

----------------------------------------------------------------------------
\* Properties

B(x) == IF x THEN 1 ELSE 0

\* the target whose total was read last
ReadTarget == data.targets[args.index]

\* the part of a target's total that does not depend on lock-on
NoLockTotal(t) ==
  (t.accuracy - t.difficulty + B(data.weapon.accurate) - B(data.weapon.inaccurate)
     - (IF data.weapon.seeking THEN 0 ELSE t.cover))
  + (data.base.accuracy - data.base.difficulty)

\* C1: Target.total is the target's own accuracy - difficulty, +1 for an
\* accurate weapon, -1 for an inaccurate one, minus the target's cover unless
\* the weapon is seeking, plus the base's accuracy - difficulty, plus 1 when
\* lock-on is used; the base's cover and the weapon flags are not counted a
\* second time through the base and nothing is clamped.
C1_TargetTotal ==
  lastOp = "targetTotal" =>
    /\ err = "ok"
    /\ result = NoLockTotal(ReadTarget)
                  + B(ReadTarget.consumeLockOn /\ ReadTarget.target \in lockon)

C1_Witness ==
  /\ lastOp = "targetTotal"
  /\ result = -2
  /\ data.base.cover = CoverHard
  /\ ReadTarget.cover = CoverSoft
  /\ data.weapon.inaccurate /\ ~data.weapon.accurate /\ ~data.weapon.seeking
  /\ ReadTarget.consumeLockOn /\ ReadTarget.target \in lockon

\* C2: Base.total is accuracy - difficulty, +1 for an accurate weapon, -1 for
\* an inaccurate one, minus the cover ordinal (None 0, Soft 1, Hard 2) unless
\* the weapon is seeking.
C2_BaseTotal ==
  lastOp = "baseTotal" =>
    /\ err = "ok"
    /\ data.weapon.seeking =>
         result = data.base.accuracy - data.base.difficulty
                    + B(data.weapon.accurate) - B(data.weapon.inaccurate)
    /\ ~data.weapon.seeking =>
         result + data.base.cover = data.base.accuracy - data.base.difficulty
                    + B(data.weapon.accurate) - B(data.weapon.inaccurate)
    /\ data.base.cover \in {0, 1, 2}

C2_Witness ==
  /\ lastOp = "baseTotal"
  /\ ~data.weapon.seeking /\ data.weapon.accurate /\ data.weapon.inaccurate
  /\ data.base.cover = 2
  /\ data.base.accuracy = 1 /\ data.base.difficulty = 0
  /\ result = -1

----------------------------------------------------------------------------

\* the raw field values of two rolls agree
SameRaw(x, y) ==
  /\ x.title = y.title
  /\ x.weapon.accurate = y.weapon.accurate
  /\ x.weapon.inaccurate = y.weapon.inaccurate
  /\ x.weapon.seeking = y.weapon.seeking
  /\ x.weapon.plugins = y.weapon.plugins
  /\ x.base.accuracy = y.base.accuracy
  /\ x.base.difficulty = y.base.difficulty
  /\ x.base.cover = y.base.cover
  /\ x.base.plugins = y.base.plugins
  /\ Len(x.targets) = Len(y.targets)
  /\ \A i \in DOMAIN x.targets :
       /\ x.targets[i].target = y.targets[i].target
       /\ x.targets[i].accuracy = y.targets[i].accuracy
       /\ x.targets[i].difficulty = y.targets[i].difficulty
       /\ x.targets[i].cover = y.targets[i].cover
       /\ x.targets[i].consumeLockOn = y.targets[i].consumeLockOn
       /\ x.targets[i].plugins = y.targets[i].plugins

\* fromObject(o) returns an instance: o validates, every token is found and
\* every hydrate call returns
Decodes(o) ==
  /\ DecodeOutcome(o) = "ok"
  /\ PluginsHydratable(NewData(o, 1).weapon.plugins)
  /\ PluginsHydratable(NewData(o, 1).base.plugins)
  /\ \A i \in DOMAIN o.targets : PluginsHydratable(NewData(o, 1).targets[i].plugins)

\* a roll has just been built and handed to its caller
Built == lastOp \in {"fromParams", "fromObject"} /\ pc = "idle" /\ err = "ok"

ExactKeys(o) ==
  /\ DOMAIN o.weapon.plugins = DOMAIN wSchema
  /\ DOMAIN o.base.plugins = DOMAIN bSchema
  /\ \A i \in DOMAIN o.targets : DOMAIN o.targets[i].plugins = DOMAIN tSchema

HasUnknownKey(o) ==
  \/ ~(DOMAIN o.weapon.plugins \subseteq DOMAIN wSchema)
  \/ ~(DOMAIN o.base.plugins \subseteq DOMAIN bSchema)
  \/ \E i \in DOMAIN o.targets : ~(DOMAIN o.targets[i].plugins \subseteq DOMAIN tSchema)

LacksKey(o) ==
  \/ ~(DOMAIN wSchema \subseteq DOMAIN o.weapon.plugins)
  \/ ~(DOMAIN bSchema \subseteq DOMAIN o.base.plugins)
  \/ \E i \in DOMAIN o.targets : ~(DOMAIN tSchema \subseteq DOMAIN o.targets[i].plugins)

\* C5: fromObject succeeds only on plugins maps that have exactly the keys of
\* the schemas; an unregistered key and a missing registered key both end the
\* decode with a validation error and without a roll.
C5_SchemaClosure ==
  (lastOp = "fromObject" /\ pc = "idle") =>
    /\ err = "ok" => ExactKeys(obj)
    /\ (HasUnknownKey(obj) \/ LacksKey(obj)) =>
         err = "ValidationError" /\ data = NoData

----------------------------------------------------------------------------

\* registerPlugin(p) gives an entity a slug that the roll's plugins map lacks
AddsSlug(p, d) ==
  \/ p.perRoll /\ p.slug \notin DOMAIN d.weapon.plugins
  \/ p.perUnknownTarget /\ p.slug \notin DOMAIN d.base.plugins
  \/ p.perTarget /\ \E i \in DOMAIN d.targets : p.slug \notin DOMAIN d.targets[i].plugins

----------------------------------------------------------------------------

\* schema s2 is schema s1 with slug k set to codec c
SetIn(s1, s2, k, c) ==
  /\ DOMAIN s2 = DOMAIN s1 \cup {k}
  /\ s2[k] = c
  /\ \A x \in DOMAIN s1 : x # k => s2[x] = s1[x]

\* C7: registerPlugin(p) sets the weapon's schema entry of p.slug iff p has
\* perRoll, the base's iff p has perUnknownTarget, the target's iff p has
\* perTarget, appends p to the plugin list always and to the targeted list iff
\* p has perTarget, and leaves everything else alone; no step of any
\* operation removes a schema entry or a registered plugin.
C7_RegisterFrame ==
  [][/\ lastOp' = "registerPlugin" =>
          LET p == args'.plugin
          IN /\ IF p.perRoll THEN SetIn(wSchema, wSchema', p.slug, p.codec)
                ELSE wSchema' = wSchema
             /\ IF p.perUnknownTarget THEN SetIn(bSchema, bSchema', p.slug, p.codec)
                ELSE bSchema' = bSchema
             /\ IF p.perTarget THEN SetIn(tSchema, tSchema', p.slug, p.codec)
                ELSE tSchema' = tSchema
             /\ Len(plugins') = Len(plugins) + 1
             /\ plugins'[Len(plugins')] = p
             /\ SubSeq(plugins', 1, Len(plugins)) = plugins
             /\ IF p.perTarget
                THEN /\ Len(targetedPlugins') = Len(targetedPlugins) + 1
                     /\ targetedPlugins'[Len(targetedPlugins')] = p
                     /\ SubSeq(targetedPlugins', 1, Len(targetedPlugins)) = targetedPlugins
                ELSE targetedPlugins' = targetedPlugins
             /\ UNCHANGED <<data, pc, hi, lockon>>
     /\ DOMAIN wSchema \subseteq DOMAIN wSchema'
     /\ DOMAIN bSchema \subseteq DOMAIN bSchema'
     /\ DOMAIN tSchema \subseteq DOMAIN tSchema'
     /\ Len(plugins) <= Len(plugins')
     /\ Len(targetedPlugins) <= Len(targetedPlugins')
     /\ lastOp' # "registerPlugin" => UNCHANGED registry]_vars

C7_Witness ==
  /\ lastOp = "registerPlugin"
  /\ Len(plugins) = 3
  /\ Len(targetedPlugins) = 1
  /\ args.plugin.perRoll /\ ~args.plugin.perTarget /\ ~args.plugin.perUnknownTarget
  /\ args.plugin.slug = "invisibility" /\ args.plugin.codec = 2
  /\ "invisibility" \in DOMAIN tSchema /\ tSchema["invisibility"] = 1
  /\ "scan" \in DOMAIN bSchema
  /\ data # NoData

\* C8: the constructor hydrates the weapon, then the base, then the targets
\* in list order, each once; each back-reference is written once, none is
\* read while unset, and on return all of them denote the roll's own weapon
\* and base.
C8_Hydration ==
  /\ data # NoData =>
       /\ data.weapon.hydrated = B(pc # "weapon")
       /\ data.base.hydrated = B(pc \notin {"weapon", "base"})
       /\ data.base.weaponWrites = data.base.hydrated
       /\ data.base.weapon = data.base.hydrated * data.id
       /\ \A i \in DOMAIN data.targets :
            /\ data.targets[i].hydrated = B(pc = "idle" \/ (pc = "targets" /\ i < hi))
            /\ data.targets[i].weaponWrites = data.targets[i].hydrated
            /\ data.targets[i].baseWrites = data.targets[i].hydrated
            /\ data.targets[i].weapon = data.targets[i].hydrated * data.id
            /\ data.targets[i].base = data.targets[i].hydrated * data.id
       /\ data.id # 0
  /\ lastOp \in {"baseTotal", "targetTotal"} => err = "ok"
  /\ pc = "idle" <=> err # "constructing"

C8_Witness ==
  /\ pc = "idle"
  /\ lastOp = "targetTotal"
  /\ args.index = 2
  /\ Len(data.targets) = 2
  /\ data.targets[2].base = data.id

\* C9: the weapon fromParams builds is accurate iff some tag is tg_accurate,
\* inaccurate iff some tag is tg_inaccurate, seeking iff some tag is
\* tg_seeking, whatever the other tags, their number and their order; an
\* absent list counts as empty.
C9_TagMapping ==
  lastOp = "fromParams" =>
    LET tags == IF args.tags.present THEN args.tags.val ELSE <<>>
        has(lid) == \E i \in DOMAIN tags : tags[i] = lid
    IN /\ obj.weapon.accurate <=> has("tg_accurate")
       /\ obj.weapon.inaccurate <=> has("tg_inaccurate")
       /\ obj.weapon.seeking <=> has("tg_seeking")
       /\ data # NoData
       /\ data.weapon.accurate = obj.weapon.accurate
       /\ data.weapon.inaccurate = obj.weapon.inaccurate
       /\ data.weapon.seeking = obj.weapon.seeking

C9_Witness ==
  /\ lastOp = "fromParams"
  /\ pc = "idle"
  /\ args.tags = Some(<<"tg_seeking", "tg_heat_self", "tg_seeking">>)
  /\ data.weapon.seeking /\ ~data.weapon.accurate /\ ~data.weapon.inaccurate

\* the entries of a serialized plugins map are what the schema's codecs write
EncodedBy(schema, m) ==
  /\ DOMAIN m = DOMAIN schema
  /\ \A k \in DOMAIN m : m[k].cls = 0 /\ m[k].data \in PluginDomain(schema[k])

\* C10: after any registrations, the object fromParams builds carries in the
\* weapon, the base and every target a plugins map with exactly the keys of
\* the entity's schema, each entry written by the codec the schema holds for
\* the slug, so its decode fails neither on a missing nor on an unknown key.
C10_FactoryKeys ==
  lastOp = "fromParams" =>
    /\ EncodedBy(wSchema, obj.weapon.plugins)
    /\ EncodedBy(bSchema, obj.base.plugins)
    /\ \A i \in DOMAIN obj.targets : EncodedBy(tSchema, obj.targets[i].plugins)
    /\ err \in {"constructing", "ok"}
    /\ data # NoData

C10_Witness ==
  /\ lastOp = "fromParams"
  /\ pc = "idle"
  /\ err = "ok"
  /\ Len(plugins) = 3
  /\ plugins[2].slug = "invisibility" /\ plugins[3].slug = "invisibility"
  /\ plugins[2].codec = 1 /\ plugins[3].codec = 2
  /\ plugins[2].perRoll /\ plugins[2].perTarget /\ plugins[2].perUnknownTarget
  /\ plugins[3].perRoll /\ ~plugins[3].perTarget /\ ~plugins[3].perUnknownTarget
  /\ obj.weapon.plugins["invisibility"] = Plain(20)
  /\ obj.targets[1].plugins["invisibility"] = Plain(10)

====
